---- MODULE Spec2Model ----
(***************************************************************************)
(* stable-error (src/src/stable-error.ts): the four exported functions    *)
(* normalizeMessage, filterMetadata, generateStableId, createStableError, *)
(* and the toJSON method of the records createStableError returns.        *)
(*                                                                         *)
(* A JavaScript string is a sequence of one-character strings, so that    *)
(* the regular expressions, the trimming and the hash work on the         *)
(* characters as the code does.  Every other JavaScript value is a record *)
(* tagged with its typeof.                                                *)
(***************************************************************************)
EXTENDS Integers, Sequences, FiniteSets, TLC

VARIABLES calls, clock, heap, made

vars == <<calls, clock, heap, made>>

(***************************************************************************)
(* Characters                                                              *)
(***************************************************************************)

\* The printable ASCII characters in code order, without the grave accent
\* (code 96): AsciiLow[i] has code 31 + i, AsciiHigh[i] has code 96 + i.
AsciiLow ==
  <<" ", "!", "\"", "#", "$", "%", "&", "'", "(", ")", "*", "+", ",", "-", ".", "/",
    "0", "1", "2", "3", "4", "5", "6", "7", "8", "9", ":", ";", "<", "=", ">", "?",
    "@", "A", "B", "C", "D", "E", "F", "G", "H", "I", "J", "K", "L", "M", "N", "O",
    "P", "Q", "R", "S", "T", "U", "V", "W", "X", "Y", "Z", "[", "\\", "]", "^", "_">>

AsciiHigh ==
  <<"a", "b", "c", "d", "e", "f", "g", "h", "i", "j", "k", "l", "m", "n", "o",
    "p", "q", "r", "s", "t", "u", "v", "w", "x", "y", "z", "{", "|", "}", "~">>

Chars == {AsciiLow[i] : i \in 1..Len(AsciiLow)} \cup {AsciiHigh[i] : i \in 1..Len(AsciiHigh)} \cup {"\t"}

\* the code unit of every character of the model (tab is its one control
\* character)
CharCodes ==
  [c \in Chars |->
     IF c = "\t" THEN 9
     ELSE IF \E i \in 1..Len(AsciiLow) : AsciiLow[i] = c
          THEN 31 + (CHOOSE i \in 1..Len(AsciiLow) : AsciiLow[i] = c)
          ELSE 96 + (CHOOSE i \in 1..Len(AsciiHigh) : AsciiHigh[i] = c)] @@ <<>>

\* String.prototype.charCodeAt for one character
charCodeAt(c) == CharCodes[c]

Digits == {"0", "1", "2", "3", "4", "5", "6", "7", "8", "9"}

UpperCase == {AsciiLow[i] : i \in 34..59}

LowerCase == {AsciiHigh[i] : i \in 1..26}

\* \d
IsDigit(c) == c \in Digits

\* [0-9a-f] under the i flag
HexChars == Digits \cup {"a", "b", "c", "d", "e", "f", "A", "B", "C", "D", "E", "F"}

IsHex(c) == c \in HexChars

\* \w, the class the \b assertion is defined by
WordChars == Digits \cup UpperCase \cup LowerCase \cup {"_"}

IsWordChar(c) == c \in WordChars

\* \s, which is also the set String.prototype.trim strips
IsSpace(c) == c \in {" ", "\t"}

\* String.prototype.toLowerCase, one character
LowerChar(c) == IF c \in UpperCase THEN AsciiHigh[charCodeAt(c) - 64] ELSE c

toLowerCase(s) == [i \in 1..Len(s) |-> LowerChar(s[i])]

RECURSIVE TrimStart(_)
TrimStart(s) ==
  IF s # <<>> /\ IsSpace(Head(s)) THEN TrimStart(Tail(s)) ELSE s

RECURSIVE TrimEnd(_)
TrimEnd(s) ==
  IF s # <<>> /\ IsSpace(s[Len(s)]) THEN TrimEnd(SubSeq(s, 1, Len(s) - 1)) ELSE s

\* String.prototype.trim
trim(s) == TrimEnd(TrimStart(s))

(***************************************************************************)
(* The regular expressions of normalizeMessage.  XxxMatch(s, i) is the    *)
(* length of the match of the expression that starts at position i of s,  *)
(* or 0 when there is none (no expression matches the empty string).      *)
(***************************************************************************)

\* s[i .. i+n-1] exists and is all hexadecimal digits
HexRun(s, i, n) == i + n - 1 <= Len(s) /\ \A k \in i..(i + n - 1) : IsHex(s[k])

\* s[i .. i+n-1] exists and is all decimal digits
DigitRun(s, i, n) == i + n - 1 <= Len(s) /\ \A k \in i..(i + n - 1) : IsDigit(s[k])

CharAt(s, i, c) == i <= Len(s) /\ s[i] = c

\* the i flag: a letter of the pattern matches both cases
CharAtI(s, i, c) == i <= Len(s) /\ LowerChar(s[i]) = c

\* \b at the gap before position i (i in 1..Len(s)+1)
WordBoundary(s, i) ==
  LET before == i > 1 /\ IsWordChar(s[i - 1])
      after  == i <= Len(s) /\ IsWordChar(s[i])
  IN  before # after

\* /[0-9a-f]{8}-[0-9a-f]{4}-[0-9a-f]{4}-[0-9a-f]{4}-[0-9a-f]{12}/gi
UuidMatch(s, i) ==
  IF /\ HexRun(s, i, 8)       /\ CharAt(s, i + 8, "-")
     /\ HexRun(s, i + 9, 4)   /\ CharAt(s, i + 13, "-")
     /\ HexRun(s, i + 14, 4)  /\ CharAt(s, i + 18, "-")
     /\ HexRun(s, i + 19, 4)  /\ CharAt(s, i + 23, "-")
     /\ HexRun(s, i + 24, 12)
  THEN 36 ELSE 0

\* /\d{4}-\d{2}-\d{2}T\d{2}:\d{2}:\d{2}(\.\d{3})?Z?/gi
TimestampMatch(s, i) ==
  IF /\ DigitRun(s, i, 4)      /\ CharAt(s, i + 4, "-")
     /\ DigitRun(s, i + 5, 2)  /\ CharAt(s, i + 7, "-")
     /\ DigitRun(s, i + 8, 2)  /\ CharAtI(s, i + 10, "t")
     /\ DigitRun(s, i + 11, 2) /\ CharAt(s, i + 13, ":")
     /\ DigitRun(s, i + 14, 2) /\ CharAt(s, i + 16, ":")
     /\ DigitRun(s, i + 17, 2)
  THEN LET frac == IF CharAt(s, i + 19, ".") /\ DigitRun(s, i + 20, 3) THEN 4 ELSE 0
           zed  == IF CharAtI(s, i + 19 + frac, "z") THEN 1 ELSE 0
       IN  19 + frac + zed
  ELSE 0

\* /\b\d{13}\b/g
TimestampMsMatch(s, i) ==
  IF WordBoundary(s, i) /\ DigitRun(s, i, 13) /\ WordBoundary(s, i + 13)
  THEN 13 ELSE 0

\* the number of digits from position i on
RECURSIVE DigitsFrom(_, _)
DigitsFrom(s, i) ==
  IF i <= Len(s) /\ IsDigit(s[i]) THEN 1 + DigitsFrom(s, i + 1) ELSE 0

\* /\b\d+\b/g: \d+ is greedy and no shorter run ends at a word boundary
NumberMatch(s, i) ==
  LET n == DigitsFrom(s, i)
  IN  IF n > 0 /\ WordBoundary(s, i) /\ WordBoundary(s, i + n) THEN n ELSE 0

RECURSIVE SpacesFrom(_, _)
SpacesFrom(s, i) ==
  IF i <= Len(s) /\ IsSpace(s[i]) THEN 1 + SpacesFrom(s, i + 1) ELSE 0

\* /\s+/g
SpaceMatch(s, i) == SpacesFrom(s, i)

MatchAt(re, s, i) ==
  CASE re = "uuid"         -> UuidMatch(s, i)
    [] re = "timestamp"    -> TimestampMatch(s, i)
    [] re = "timestamp_ms" -> TimestampMsMatch(s, i)
    [] re = "number"       -> NumberMatch(s, i)
    [] re = "space"        -> SpaceMatch(s, i)

\* One step of String.prototype.replace with a global expression: at position
\* st.i, with st.out the text produced so far, a match is replaced and the
\* search goes on after it, and an unmatched character is copied.
ReplaceStep(re, s, by, st) ==
  IF st.i > Len(s) THEN st
  ELSE LET n == MatchAt(re, s, st.i)
       IN  IF n > 0 THEN [i |-> st.i + n, out |-> st.out \o by]
           ELSE [i |-> st.i + 1, out |-> Append(st.out, s[st.i])]

\* up to k steps in a row, taken as two halves one after the other
RECURSIVE ReplaceSteps(_, _, _, _, _)
ReplaceSteps(re, s, by, st, k) ==
  IF k = 0 \/ st.i > Len(s) THEN st
  ELSE IF k = 1 THEN ReplaceStep(re, s, by, st)
  ELSE ReplaceSteps(re, s, by, ReplaceSteps(re, s, by, st, k \div 2), k - k \div 2)

\* every step consumes a character at least, so Len(s) steps reach the end
replace(s, re, by) == ReplaceSteps(re, s, by, [i |-> 1, out |-> <<>>], Len(s)).out

pUUID == <<"U", "U", "I", "D">>

pTIMESTAMP == <<"T", "I", "M", "E", "S", "T", "A", "M", "P">>

pTIMESTAMP_MS == <<"T", "I", "M", "E", "S", "T", "A", "M", "P", "_", "M", "S">>

pNUMBER == <<"N", "U", "M", "B", "E", "R">>

\* the numbered lines of normalizeMessage
\* line 39 without toLowerCase
Line39KeepCase(message) == trim(message)

Line39(message) == trim(toLowerCase(message))

Line42(normalized) == replace(normalized, "uuid", pUUID)

Line43(normalized) == replace(normalized, "timestamp", pTIMESTAMP)

Line44(normalized) == replace(normalized, "timestamp_ms", pTIMESTAMP_MS)

Line45(normalized) == replace(normalized, "number", pNUMBER)

Line48(normalized) == replace(normalized, "space", <<" ">>)

(***************************************************************************)
(* JavaScript values                                                       *)
(***************************************************************************)

Undefined == [type |-> "undefined"]

Null == [type |-> "null"]

Str(s) == [type |-> "string", val |-> s]

Num(n) == [type |-> "number", val |-> n]

Bool(b) == [type |-> "boolean", val |-> b]

\* A plain object: its own enumerable properties in insertion order, each a
\* pair <<key, value>>, the keys being strings and pairwise different.
Obj(entries) == [type |-> "object", val |-> entries]

\* An Error instance with its three standard properties.
Err(message, name, stack) ==
  [type |-> "error", message |-> message, name |-> name, stack |-> stack]

\* ToBoolean, as || and if apply it
Truthy(v) ==
  CASE v.type = "undefined" -> FALSE
    [] v.type = "null"      -> FALSE
    [] v.type = "string"    -> v.val # <<>>
    [] v.type = "number"    -> v.val # 0
    [] v.type = "boolean"   -> v.val
    [] OTHER                -> TRUE

\* a || b
OrElse(a, b) == IF Truthy(a) THEN a ELSE b

\* typeof v
TypeOf(v) == IF v.type \in {"null", "error"} THEN "object" ELSE v.type

Keys(entries) == [i \in 1..Len(entries) |-> entries[i][1]]

HasKey(entries, key) == \E i \in 1..Len(entries) : entries[i][1] = key

\* o[key]
Get(entries, key) ==
  IF HasKey(entries, key)
  THEN entries[CHOOSE i \in 1..Len(entries) : entries[i][1] = key][2]
  ELSE Undefined

\* o[key] = value: an existing key keeps its place, a new one goes last
Put(entries, key, value) ==
  IF HasKey(entries, key)
  THEN [i \in 1..Len(entries) |->
          IF entries[i][1] = key THEN <<key, value>> ELSE entries[i]]
  ELSE Append(entries, <<key, value>>)

\* { ...a, ...b } continued from the entries copied so far
RECURSIVE PutAll(_, _)
PutAll(entries, more) ==
  IF more = <<>> THEN entries
  ELSE PutAll(Put(entries, Head(more)[1], Head(more)[2]), Tail(more))

\* the own enumerable properties a spread copies: none of undefined, null,
\* false, a number; the entries of an object
SpreadEntries(v) == IF v.type = "object" THEN v.val ELSE <<>>

\* a property of an object given as a record such as the options
Prop(o, field) == IF field \in DOMAIN o THEN o[field] ELSE Undefined

RECURSIVE DecimalDigits(_)
DecimalDigits(n) ==
  IF n < 10 THEN <<AsciiLow[17 + n]>>
  ELSE DecimalDigits(n \div 10) \o <<AsciiLow[17 + (n % 10)]>>

\* String(v) for the values of the model (numbers are naturals)
String(v) ==
  CASE v.type = "string"    -> v.val
    [] v.type = "number"    -> DecimalDigits(v.val)
    [] v.type = "boolean"   -> IF v.val THEN <<"t", "r", "u", "e">>
                               ELSE <<"f", "a", "l", "s", "e">>
    [] v.type = "undefined" -> <<"u", "n", "d", "e", "f", "i", "n", "e", "d">>
    [] v.type = "null"      -> <<"n", "u", "l", "l">>
    [] OTHER                -> <<"[", "o", "b", "j", "e", "c", "t", " ",
                                 "O", "b", "j", "e", "c", "t", "]">>

(***************************************************************************)
(* normalizeMessage, filterMetadata                                        *)
(***************************************************************************)

\* lines 44 and 45 in the other order
normalizeMessageNumberFirst(message) ==
  IF ~Truthy(message) \/ TypeOf(message) # "string" THEN <<>>
  ELSE Line48(Line44(Line45(Line43(Line42(Line39(message.val))))))

normalizeMessage(message) ==
  IF ~Truthy(message) \/ TypeOf(message) # "string" THEN <<>>
  ELSE Line48(Line45(Line44(Line43(Line42(Line39(message.val))))))

kType == <<"t", "y", "p", "e">>

kCode == <<"c", "o", "d", "e">>

kField == <<"f", "i", "e", "l", "d">>

kOperation == <<"o", "p", "e", "r", "a", "t", "i", "o", "n">>

kService == <<"s", "e", "r", "v", "i", "c", "e">>

kComponent == <<"c", "o", "m", "p", "o", "n", "e", "n", "t">>

\* allowedKeys with one key forgotten
allowedKeysWithoutComponent == {kType, kCode, kField, kOperation, kService}

allowedKeys == {kType, kCode, kField, kOperation, kService, kComponent}

\* the loop of filterMetadata over Object.entries(metadata)
RECURSIVE FilterEntries(_, _)
FilterEntries(entries, filtered) ==
  IF entries = <<>> THEN filtered
  ELSE LET key   == Head(entries)[1]
           value == Head(entries)[2]
       IN  FilterEntries(Tail(entries),
             IF key \in allowedKeys /\ value.type # "undefined" /\ value.type # "null"
             THEN Put(filtered, key, value) ELSE filtered)

\* filterMetadata without the allow-list
filterMetadataKeepAll(metadata) ==
  IF ~Truthy(metadata) \/ TypeOf(metadata) # "object" THEN Obj(<<>>)
  ELSE Obj(SpreadEntries(metadata))

filterMetadata(metadata) ==
  IF ~Truthy(metadata) \/ TypeOf(metadata) # "object" THEN Obj(<<>>)
  ELSE Obj(FilterEntries(SpreadEntries(metadata), <<>>))

(***************************************************************************)
(* generateStableId                                                        *)
(***************************************************************************)

\* a < b in the order Array.prototype.sort uses by default: by code units,
\* a proper prefix first
RECURSIVE StrLess(_, _)
StrLess(a, b) ==
  IF b = <<>> THEN FALSE
  ELSE IF a = <<>> THEN TRUE
  ELSE IF Head(a) = Head(b) THEN StrLess(Tail(a), Tail(b))
  ELSE charCodeAt(Head(a)) < charCodeAt(Head(b))

\* key put at its place in the sorted sequence
RECURSIVE InsertSorted(_, _)
InsertSorted(sorted, key) ==
  IF sorted = <<>> THEN <<key>>
  ELSE IF StrLess(key, Head(sorted)) THEN <<key>> \o sorted
  ELSE <<Head(sorted)>> \o InsertSorted(Tail(sorted), key)

\* Array.prototype.sort on strings
\* Object.keys(filtered) left in insertion order
sortForgotten(keys) == keys

RECURSIVE sort(_)
sort(keys) ==
  IF keys = <<>> THEN <<>>
  ELSE InsertSorted(sort(Tail(keys)), Head(keys))

\* Array.prototype.join
RECURSIVE join(_, _)
join(parts, sep) ==
  IF parts = <<>> THEN <<>>
  ELSE IF Len(parts) = 1 THEN parts[1]
  ELSE parts[1] \o sep \o join(Tail(parts), sep)

\* the canonical string of lines 82-98
stableString(message, category, metadata) ==
  LET parts == <<
        <<"m", "e", "s", "s", "a", "g", "e", ":">> \o normalizeMessage(message),
        <<"c", "a", "t", "e", "g", "o", "r", "y", ":">>
          \o trim(toLowerCase(OrElse(category, Str(<<>>)).val)) >>
      filtered == filterMetadata(metadata).val
      sortedKeys == sort(Keys(filtered))
      metadataParts == [i \in 1..Len(sortedKeys) |->
        sortedKeys[i] \o <<":">> \o trim(toLowerCase(String(Get(filtered, sortedKeys[i]))))]
  IN  IF Len(sortedKeys) > 0
      THEN join(Append(parts, <<"m", "e", "t", "a", "d", "a", "t", "a", ":">>
                                \o join(metadataParts, <<",">>)), <<"|">>)
      ELSE join(parts, <<"|">>)

\* A 32-bit integer is kept as its two 16-bit halves, [hi, lo], of the
\* two's-complement pattern: the value is negative when hi >= 2^15.
W16 == 2^16

Int32(hi, lo) == [hi |-> hi, lo |-> lo]

IsNegative(w) == w.hi >= 2^15

\* w << 4
ShiftLeft4(w) ==
  LET lo == w.lo * 16
  IN  Int32((w.hi * 16 + lo \div W16) % W16, lo % W16)

\* w << 5
ShiftLeft5(w) ==
  LET lo == w.lo * 32
  IN  Int32((w.hi * 32 + lo \div W16) % W16, lo % W16)

\* a - b and a + c, wrapped to 32 bits.  The code wraps once, at line 105;
\* the sum of line 104 is exact in a double, so wrapping it there or at
\* every step gives the same pattern.
Minus32(a, b) ==
  LET lo == a.lo - b.lo
      borrow == IF lo < 0 THEN 1 ELSE 0
  IN  Int32((a.hi - b.hi - borrow + 2 * W16) % W16, (lo + W16) % W16)

Plus32(a, c) ==
  LET lo == a.lo + c
  IN  Int32((a.hi + lo \div W16) % W16, lo % W16)

\* lines 104-105 with (hash << 5) + hash, the multiplier 33
HashStepTimes33(hash, char) ==
  Plus32(Minus32(ShiftLeft5(hash), Minus32(Int32(0, 0), hash)), char)

\* lines 104-105: hash = ((hash << 5) - hash) + char; hash = hash & hash
HashStep(hash, char) == Plus32(Minus32(ShiftLeft5(hash), hash), char)

\* one iteration of the loop of lines 102-106, st.i being the (1-based)
\* index and st.hash the accumulator
HashIteration(s, st) ==
  [i |-> st.i + 1, hash |-> HashStep(st.hash, charCodeAt(s[st.i]))]

\* up to k iterations in a row, taken as two halves one after the other
RECURSIVE HashLoop(_, _, _)
HashLoop(s, st, k) ==
  IF k = 0 \/ st.i > Len(s) THEN st
  ELSE IF k = 1 THEN HashIteration(s, st)
  ELSE HashLoop(s, HashLoop(s, st, k \div 2), k - k \div 2)

\* lines 101-106
Hash(s) == HashLoop(s, [i |-> 1, hash |-> Int32(0, 0)], Len(s)).hash

\* Math.abs of a 32-bit integer: a number in 0 .. 2^31, as two halves
MathAbs(w) ==
  IF IsNegative(w)
  THEN Int32((W16 - w.hi - (IF w.lo = 0 THEN 0 ELSE 1)) % W16, (W16 - w.lo) % W16)
  ELSE w

HexDigit(n) == IF n < 10 THEN AsciiLow[17 + n] ELSE AsciiHigh[n - 9]

RECURSIVE HexOf(_)
HexOf(n) ==
  IF n < 16 THEN <<HexDigit(n)>> ELSE HexOf(n \div 16) \o <<HexDigit(n % 16)>>

\* String.prototype.padStart
RECURSIVE padStart(_, _, _)
padStart(s, n, c) == IF Len(s) >= n THEN s ELSE padStart(<<c>> \o s, n, c)

\* Number.prototype.toString(16) of a number kept as two halves
toString16(w) ==
  IF w.hi = 0 THEN HexOf(w.lo)
  ELSE HexOf(w.hi) \o padStart(HexOf(w.lo), 4, "0")

\* line 109 without padStart
HashToIdUnpadded(hash) == toString16(MathAbs(hash))

\* line 109
HashToId(hash) == padStart(toString16(MathAbs(hash)), 8, "0")

generateStableId(message, category, metadata) ==
  HashToId(Hash(stableString(message, category, metadata)))

(***************************************************************************)
(* createStableError                                                       *)
(***************************************************************************)

sStableError == <<"S", "t", "a", "b", "l", "e", "E", "r", "r", "o", "r">>

sGeneral == <<"g", "e", "n", "e", "r", "a", "l">>

sMedium == <<"m", "e", "d", "i", "u", "m">>

kOriginalName == <<"o", "r", "i", "g", "i", "n", "a", "l", "N", "a", "m", "e">>

kOriginalStack == <<"o", "r", "i", "g", "i", "n", "a", "l", "S", "t", "a", "c", "k">>

\* Date.prototype.toISOString of a time within the first minute of the
\* epoch, now being its milliseconds: 1970-01-01T00:00:SS.mmmZ
toISOString(now) ==
  <<"1", "9", "7", "0", "-", "0", "1", "-", "0", "1", "T", "0", "0", ":", "0", "0", ":">>
    \o padStart(DecimalDigits(now \div 1000), 2, "0") \o <<".">>
    \o padStart(DecimalDigits(now % 1000), 3, "0") \o <<"Z">>

\* the stack the engine gives new Error(message) at line 151
HostStack(message) ==
  <<"E", "r", "r", "o", "r", ":", " ">> \o message
    \o <<" ", "a", "t", " ", "c", "r", "e", "a", "t", "e",
         "S", "t", "a", "b", "l", "e", "E", "r", "r", "o", "r">>

\* lines 125-133: the message, and the stack and name of the source
MessageOf(messageOrError) ==
  IF TypeOf(messageOrError) = "string" THEN messageOrError ELSE messageOrError.message

OriginalStackOf(messageOrError) ==
  IF TypeOf(messageOrError) = "string" THEN Undefined ELSE messageOrError.stack

OriginalNameOf(messageOrError) ==
  IF TypeOf(messageOrError) = "string" THEN Str(sStableError) ELSE messageOrError.name

\* CategoryOf with ?? in place of ||: only an absent category is defaulted
CategoryOfNullish(options) ==
  IF Prop(options, "category").type \in {"undefined", "null"} THEN Str(sGeneral)
  ELSE Prop(options, "category")

\* line 135
CategoryOf(options) == OrElse(Prop(options, "category"), Str(sGeneral))

\* line 136
StatusCodeOf(options) == OrElse(Prop(options, "statusCode"), Num(500))

\* MetadataOf with the two spreads in the other order
MetadataOfSourceFirst(messageOrError, options) ==
  Obj(PutAll(PutAll(<<>>, IF TypeOf(messageOrError) = "string" THEN <<>>
                          ELSE << <<kOriginalName, OriginalNameOf(messageOrError)>>,
                                  <<kOriginalStack, OriginalStackOf(messageOrError)>> >>),
             SpreadEntries(Prop(options, "metadata"))))

\* lines 137-143: { ...options.metadata, ...(typeof messageOrError !== 'string'
\* && { originalName, originalStack }) }
MetadataOf(messageOrError, options) ==
  Obj(PutAll(PutAll(<<>>, SpreadEntries(Prop(options, "metadata"))),
             IF TypeOf(messageOrError) = "string" THEN <<>>
             ELSE << <<kOriginalName, OriginalNameOf(messageOrError)>>,
                     <<kOriginalStack, OriginalStackOf(messageOrError)>> >>))

\* line 144
SeverityOf(options) == OrElse(Prop(options, "severity"), Str(sMedium))

\* lines 151 and 161-163: the stack of new Error(message), replaced by the
\* source's when that is truthy
StackOf(messageOrError) ==
  IF Truthy(OriginalStackOf(messageOrError)) THEN OriginalStackOf(messageOrError)
  ELSE Str(HostStack(MessageOf(messageOrError).val))

\* The value createStableError(messageOrError, options) returns when the
\* clock reads now.  options is a record of the fields the caller gave.
createStableError(messageOrError, options, now) ==
  [ name       |-> Str(sStableError),
    message    |-> MessageOf(messageOrError),
    id         |-> Str(generateStableId(MessageOf(messageOrError), CategoryOf(options),
                                        MetadataOf(messageOrError, options))),
    category   |-> CategoryOf(options),
    metadata   |-> MetadataOf(messageOrError, options),
    severity   |-> SeverityOf(options),
    timestamp  |-> Str(toISOString(now)),
    statusCode |-> StatusCodeOf(options),
    stack      |-> StackOf(messageOrError) ]

(***************************************************************************)
(* The calls of the library.  calls is the history of the calls made so   *)
(* far, each with its arguments and the value it returned; clock is the   *)
(* wall clock in milliseconds.  The library keeps no state of its own.    *)
(* heap holds the objects that are passed by reference (source errors,    *)
(* options, metadata mappings, records), an address being an index, and   *)
(* made the value each object had when it was allocated.                  *)
(***************************************************************************)

MaxCalls == 2

MaxClock == 1

Call(fn, args, result) == [fn |-> fn, args |-> args, result |-> result]

CallNormalizeMessage(message) ==
  /\ Len(calls) < MaxCalls
  /\ calls' = Append(calls,
       Call("normalizeMessage", <<message>>, Str(normalizeMessage(message))))
  /\ UNCHANGED <<clock, heap, made>>

CallFilterMetadata(metadata) ==
  /\ Len(calls) < MaxCalls
  /\ calls' = Append(calls,
       Call("filterMetadata", <<metadata>>, filterMetadata(metadata)))
  /\ UNCHANGED <<clock, heap, made>>

CallGenerateStableId(message, category, metadata) ==
  /\ Len(calls) < MaxCalls
  /\ calls' = Append(calls,
       Call("generateStableId", <<message, category, metadata>>,
            Str(generateStableId(message, category, metadata))))
  /\ UNCHANGED <<clock, heap, made>>

CallCreateStableError(messageOrError, options) ==
  /\ Len(calls) < MaxCalls
  /\ calls' = Append(calls,
       Call("createStableError", <<messageOrError, options>>,
            createStableError(messageOrError, options, clock)))
  /\ UNCHANGED <<clock, heap, made>>

\* one pass of the loop body of lines 103-105 on an accumulator and a
\* character code
CallHashStep(hash, char) ==
  /\ Len(calls) < MaxCalls
  /\ calls' = Append(calls, Call("hashStep", <<hash, Num(char)>>, HashStep(hash, char)))
  /\ UNCHANGED <<clock, heap, made>>

\* a millisecond passes
Tick ==
  /\ clock < MaxClock
  /\ clock' = clock + 1
  /\ UNCHANGED <<calls, heap, made>>

\* a reference to the object at an address of the heap
Ref(addr) == [type |-> "ref", addr |-> addr]

IsRef(v) == "addr" \in DOMAIN v

\* the object a reference points to; any other value is itself
Deref(v) == IF IsRef(v) THEN heap[v.addr] ELSE v

\* options.metadata read through the reference the options hold
OptionsAt(options) ==
  LET o == Deref(options)
  IN  IF "metadata" \in DOMAIN o THEN [o EXCEPT !.metadata = Deref(@)] ELSE o

\* the object at an address written, a new address extending the heap
Store(h, addr, object) ==
  IF addr <= Len(h) THEN [h EXCEPT ![addr] = object] ELSE Append(h, object)

\* line 137 with metadata = options.metadata || {} in place of the spread:
\* the record shares the caller's mapping
MetadataAddressShared(options) ==
  IF "metadata" \in DOMAIN Deref(options) /\ IsRef(Deref(options).metadata)
  THEN Deref(options).metadata.addr
  ELSE Len(heap) + 1

\* line 137: the object literal is a new object
MetadataAddress(options) == Len(heap) + 1

\* createStableError on arguments passed by reference: lines 137-143 make
\* the metadata mapping, line 151 makes the record, lines 152-163 fill it,
\* and nothing else is written.
CreateStableErrorAt(messageOrError, options) ==
  LET error == createStableError(Deref(messageOrError), OptionsAt(options), clock)
      m == MetadataAddress(options)
      withMetadata == Store(heap, m, error.metadata)
      r == Len(withMetadata) + 1
  IN  /\ Len(calls) < MaxCalls
      /\ heap' = Store(withMetadata, r, [error EXCEPT !.metadata = Ref(m)])
      /\ made' = [a \in 1..Len(heap') |-> IF a <= Len(made) THEN made[a] ELSE heap'[a]]
      /\ calls' = Append(calls, Call("createStableError", <<messageOrError, options>>, Ref(r)))
      /\ UNCHANGED clock

kId == <<"i", "d">>

kMessage == <<"m", "e", "s", "s", "a", "g", "e">>

kCategory == <<"c", "a", "t", "e", "g", "o", "r", "y">>

kMetadata == <<"m", "e", "t", "a", "d", "a", "t", "a">>

kSeverity == <<"s", "e", "v", "e", "r", "i", "t", "y">>

kTimestamp == <<"t", "i", "m", "e", "s", "t", "a", "m", "p">>

kStatusCode == <<"s", "t", "a", "t", "u", "s", "C", "o", "d", "e">>

kStack == <<"s", "t", "a", "c", "k">>

\* lines 166-177: a new mapping of the fields the record has now
toJSON(this) ==
  Obj(<< <<kId, this.id>>, <<kMessage, this.message>>, <<kCategory, this.category>>,
         <<kMetadata, this.metadata>>, <<kSeverity, this.severity>>,
         <<kTimestamp, this.timestamp>>, <<kStatusCode, this.statusCode>>,
         <<kStack, this.stack>> >>)

\* the addresses of the records
Records == {a \in 1..Len(heap) : "timestamp" \in DOMAIN heap[a]}

CallToJSON(r) ==
  /\ Len(calls) < MaxCalls
  /\ calls' = Append(calls, Call("toJSON", <<Ref(r)>>, toJSON(heap[r])))
  /\ UNCHANGED <<clock, heap, made>>

\* the caller assigns a field of a record: the fields of lines 152-158 are
\* ordinary writable properties
AssignField(r, field, value) ==
  /\ heap[r][field] # value
  /\ heap' = [heap EXCEPT ![r][field] = value]
  /\ UNCHANGED <<calls, clock, made>>

\* the caller adds or reassigns a key of a record's metadata
SetMetadataKey(r, key, value) ==
  LET m == heap[r].metadata.addr
  IN  /\ Get(heap[m].val, key) # value
      /\ heap' = [heap EXCEPT ![m] = Obj(Put(heap[m].val, key, value))]
      /\ UNCHANGED <<calls, clock, made>>

\* the caller deletes a key of a record's metadata
DeleteMetadataKey(r, key) ==
  LET m == heap[r].metadata.addr
  IN  /\ HasKey(heap[m].val, key)
      /\ heap' = [heap EXCEPT ![m] = Obj(SelectSeq(heap[m].val, LAMBDA e : e[1] # key))]
      /\ UNCHANGED <<calls, clock, made>>

(***************************************************************************)
(* The inputs of the model                                                 *)
(***************************************************************************)

sTest == <<"t", "e", "s", "t">>

sHigh == <<"h", "i", "g", "h">>

sEmail == <<"e", "m", "a", "i", "l">>

kUserId == <<"u", "s", "e", "r", "I", "d">>

sTestError == <<"T", "e", "s", "t", " ", "e", "r", "r", "o", "r", " ", "1">>

sOtherError == <<"O", "t", "h", "e", "r", " ", "e", "r", "r", "o", "r">>

sOriginalError == <<"O", "r", "i", "g", "i", "n", "a", "l", "E", "r", "r", "o", "r">>

sTrace == <<"O", "r", "i", "g", "i", "n", "a", "l", "E", "r", "r", "o", "r", ":", " ", "T", "e", "s", "t", " ", "e", "r", "r", "o", "r", " ", "1", " ", "a", "t", " ", "c", "a", "l", "l", "e", "r">>

\* the sources and options of the calls of Spec
BuildSources ==
  { Str(sTestError),
    Err(Str(sTestError), Str(sOriginalError), Str(sTrace)),
    Err(Str(sTestError), Str(sOriginalError), Str(<<>>)),
    Err(Str(sOtherError), Str(sOriginalError), Undefined) }

BuildOptions ==
  { <<>>,
    [category |-> Str(<<>>), metadata |-> Obj(<<>>), statusCode |-> Num(0)],
    [category |-> Str(sTest), severity |-> Str(sHigh), statusCode |-> Num(400),
     metadata |-> Obj(<< <<kOriginalName, Str(<<"M", "i", "n", "e">>)>>, <<kField, Str(sEmail)>> >>)] }

\* the sources and options of the calls of SpecIdentity
IdSources ==
  { Str(sTestError),
    Str(sOtherError),
    Err(Str(sTestError), Str(sOriginalError), Str(sTrace)) }

IdOptions ==
  { <<>>,
    [category |-> Str(sTest), severity |-> Str(sHigh), statusCode |-> Num(400),
     metadata |-> Obj(<< <<kField, Str(sEmail)>>, <<kUserId, Num(123)>>,
                         <<kType, Null>>, <<kCode, Num(404)>> >>)],
    [category |-> Str(sTest),
     metadata |-> Obj(<< <<kUserId, Num(456)>>, <<kCode, Num(404)>>,
                         <<kOperation, Undefined>>, <<kField, Str(sEmail)>> >>)],
    [category |-> Str(sTest),
     metadata |-> Obj(<< <<kField, Str(<<"u", "s", "e", "r", "n", "a", "m", "e">>)>>, <<kCode, Num(404)>> >>)] }

\* the arguments of the calls of SpecId.  With the message overflow and no
\* metadata the category vlaspkx gives the hash -2^31, abnxswmi the hash 0
\* and agiyhznq the hash 4096.
IdMessages == { Str(<<"o", "v", "e", "r", "f", "l", "o", "w">>), Str(<<>>), Undefined }

IdCategories == { Str(<<"v", "l", "a", "s", "p", "k", "x">>), Str(<<"a", "b", "n", "x", "s", "w", "m", "i">>), Str(<<"a", "g", "i", "y", "h", "z", "n", "q">>) }

IdMetadatas ==
  { Obj(<<>>), Undefined,
    Obj(<< <<kUserId, Num(123)>>, <<kField, Str(sEmail)>> >>) }

\* the arguments of the calls of SpecFilter
FilterInputs ==
  { Undefined, Null, Str(sEmail), Num(5), Obj(<<>>),
    Obj(<< <<kType, Str(<<"v", "a", "l", "i", "d", "a", "t", "i", "o", "n">>)>>, <<kField, Str(sEmail)>>,
           <<kUserId, Num(123)>>, <<<<"t", "i", "m", "e", "s", "t", "a", "m", "p">>, Str(<<"2", "0", "2", "3", "-", "0", "1", "-", "0", "1">>)>>,
           <<<<"s", "e", "s", "s", "i", "o", "n", "I", "d">>, Str(<<"a", "b", "c", "1", "2", "3">>)>> >>),
    Obj(<< <<kType, Str(<<"v", "a", "l", "i", "d", "a", "t", "i", "o", "n">>)>>, <<kField, Null>>,
           <<kOperation, Undefined>>, <<kService, Str(<<"a", "p", "i">>)>> >>),
    Obj(<< <<<<"T", "y", "p", "e">>, Str(<<"x">>)>>, <<kComponent, Num(0)>>, <<kCode, Str(<<>>)>>,
           <<kService, Bool(FALSE)>>, <<kOriginalName, Str(sOriginalError)>> >>),
    Obj(<< <<kType, Str(<<"v", "a", "l", "i", "d", "a", "t", "i", "o", "n">>)>>, <<kCode, Str(<<"I", "N", "V", "A", "L", "I", "D", "_", "E", "M", "A", "I", "L">>)>>,
           <<kField, Str(sEmail)>>, <<kOperation, Str(<<"c", "r", "e", "a", "t", "e">>)>>,
           <<kService, Str(<<"u", "s", "e", "r", "-", "s", "e", "r", "v", "i", "c", "e">>)>>, <<kComponent, Str(<<"v", "a", "l", "i", "d", "a", "t", "i", "o", "n">>)>> >>),
    Obj(<< <<kUserId, Num(123)>>, <<<<"s", "e", "s", "s", "i", "o", "n", "I", "d">>, Null>> >>),
    Bool(TRUE) }

\* the messages of the calls of SpecNormalize
NormalizeMessages ==
  { <<"U", "s", "e", "r", " ", "1", "2", "3", " ", "n", "o", "t", " ", "f", "o", "u", "n", "d">>,
    <<"U", "S", "E", "R", " ", " ", "7", "8", "9", " ", "N", "O", "T", " ", "F", "O", "U", "N", "D", " ">>,
    <<"U", "s", "e", "r", " ", "1", "6", "7", "2", "5", "3", "1", "2", "0", "0", "0", "0", "0", " ", "n", "o", "t", " ", "f", "o", "u", "n", "d">>,
    <<"O", "r", "d", "e", "r", " ", "4", "2", " ", "a", "t", " ", "1", "6", "7", "2", "5", "3", "1", "2", "0", "0", "0", "0", "0">>,
    <<"E", "r", "r", "o", "r", " ", "a", "t", " ", "2", "0", "2", "3", "-", "0", "1", "-", "0", "1", "T", "1", "0", ":", "0", "0", ":", "0", "0", "Z">>,
    <<"E", "r", "r", "o", "r", " ", "a", "t", " ", "2", "0", "2", "4", "-", "1", "2", "-", "0", "1", "T", "1", "0", ":", "5", "9", ":", "0", "0", "Z">>,
    <<"i", "d", " ", "1", "2", "3", "4", "5", "6", "7", "8", "9", "0", "1", "2", "3", "4", " ", "x", "_", "1", "2", " ", "7">>,
    <<"1", "2", "3", "4", "5", "6", "7", "8", "9", "0", "1", "2", "3", "-", "0", "1", "-", "0", "1", "T", "1", "0", ":", "0", "0", ":", "0", "0">> }

NormalizeOptions ==
  [category |-> Str(sTest), metadata |-> Obj(<< <<kField, Str(sEmail)>> >>)]

\* the messages of the calls of SpecUuid: a text, a UUID, a text
UuidPrefixes == { <<"U", "s", "e", "r", " ">>, <<"a", "b", "-">>, <<"a", "a", "a", "a", "a", "a", "a", "a", "-", "b", "b", "b", "b", "-", "c", "c", "c", "c", "-", "d", "d", "d", "d", "-", "e", "e", "e", "e">> }

Uuids ==
  { <<"5", "5", "0", "e", "8", "4", "0", "0", "-", "e", "2", "9", "b", "-", "4", "1", "d", "4", "-", "a", "7", "1", "6", "-", "4", "4", "6", "6", "5", "5", "4", "4", "0", "0", "0", "0">>,
    <<"6", "B", "A", "7", "B", "8", "1", "0", "-", "9", "D", "A", "D", "-", "1", "1", "D", "1", "-", "8", "0", "B", "4", "-", "0", "0", "C", "0", "4", "F", "D", "4", "3", "0", "C", "8">> }

UuidSuffixes == { <<" ", "n", "o", "t", " ", "f", "o", "u", "n", "d">>, <<"-", "1", "2">> }

UuidMessages ==
  {prefix \o uuid \o suffix :
     prefix \in UuidPrefixes, uuid \in Uuids, suffix \in UuidSuffixes}

UuidOptions == [category |-> Str(sTest)]

\* the objects the caller holds at the start of SpecHeap: a source error, a
\* metadata mapping and the options that refer to it
sChanged == <<"c", "h", "a", "n", "g", "e", "d">>

CallerObjects ==
  << Err(Str(sOtherError), Str(sOriginalError), Str(sTrace)),
     Obj(<< <<kField, Str(sEmail)>>, <<kUserId, Num(123)>> >>),
     [category |-> Str(sTest), metadata |-> Ref(2)] >>

HeapSources == { Str(sTestError), Ref(1) }

HeapOptions == { <<>>, Ref(3) }

AssignedFields == { "category" }

\* the arguments of the calls of SpecCanonical
CanonicalInputs ==
  { <<Str(<<"U", "s", "e", "r", " ", "1", "2", "3", " ", "n", "o", "t", " ", "f", "o", "u", "n", "d">>), Str(sTest),
      Obj(<< <<kField, Str(sEmail)>>, <<kCode, Num(404)>> >>)>>,
    <<Str(<<"U", "s", "e", "r", " ", "4", "5", "6", " ", "n", "o", "t", " ", "f", "o", "u", "n", "d">>), Str(<<" ", "T", "e", "s", "t", " ">>),
      Obj(<< <<kCode, Str(<<"4", "0", "4">>)>>, <<kUserId, Num(1)>>, <<kField, Str(<<" ", "E", "m", "a", "i", "l", " ">>)>> >>)>>,
    <<Str(<<"x">>), Str(<<"a", "|", "m", "e", "t", "a", "d", "a", "t", "a", ":", "c", "o", "d", "e", ":", "1">>), Obj(<<>>)>>,
    <<Str(<<"x">>), Str(<<"a">>), Obj(<< <<kCode, Num(1)>> >>)>>,
    <<Str(<<"x">>), Str(<<"a">>), Obj(<< <<kCode, Str(<<"1", ",", "f", "i", "e", "l", "d", ":", "b">>)>> >>)>>,
    <<Str(<<"x">>), Str(<<"a">>), Obj(<< <<kField, Str(<<"b">>)>>, <<kCode, Num(1)>> >>)>>,
    <<Str(<<"x">>), Str(<<"a">>), Obj(<< <<kUserId, Num(1)>>, <<kType, Null>> >>)>>,
    <<Str(<<"x">>), Str(<<"a">>), Obj(<<>>)>>,
    <<Str(<<"x">>), Str(<<"A", " ">>), Undefined>>,
    <<Str(<<"y">>), Str(<<"a">>), Obj(<<>>)>>,
    <<Str(<<"o", "v", "e", "r", "f", "l", "o", "w">>), Str(<<"v", "l", "a", "s", "p", "k", "x">>), Obj(<<>>)>>,
    <<Str(<<"o", "v", "e", "r", "f", "l", "o", "w">>), Str(<<"a", "b", "n", "x", "s", "w", "m", "i">>), Obj(<<>>)>>,
    <<Undefined, Undefined, Null>> }

\* the accumulators and character codes of the calls of SpecHashStep: 0, 1,
\* -1, 2^31 - 1, -2^31, 2^26 (whose shift is -2^31), 0x12345678, and the
\* codes of a space, a, ~ and the largest UTF-16 code unit
HashValues ==
  { Int32(0, 0), Int32(0, 1), Int32(65535, 65535), Int32(32767, 65535),
    Int32(32768, 0), Int32(1024, 0), Int32(4660, 22136) }

HashChars == { 32, 97, 126, 65535 }

\* the messages of the calls of SpecTimestamp
TimestampMessages ==
  { <<"E", "r", "r", "o", "r", " ", "a", "t", " ", "2", "0", "2", "3", "-", "0", "1", "-", "0", "1", "T", "1", "0", ":", "0", "0", ":", "0", "0", "Z">>,
    <<"E", "r", "r", "o", "r", " ", "a", "t", " ", "2", "0", "2", "3", "-", "1", "2", "-", "3", "1", "T", "2", "3", ":", "5", "9", ":", "5", "9", "Z">>,
    <<"E", "r", "r", "o", "r", " ", "a", "t", " ", "1", "6", "7", "2", "5", "3", "1", "2", "0", "0", "0", "0", "0">>,
    <<"E", "r", "r", "o", "r", " ", "a", "t", " ", "1", "7", "0", "4", "0", "6", "7", "1", "9", "9", "9", "9", "9">>,
    <<"E", "r", "r", "o", "r", " ", "a", "t", " ", "2", "0", "2", "3", "-", "0", "1", "-", "0", "1", "T", "1", "0", ":", "0", "0", ":", "0", "0">>,
    <<"E", "r", "r", "o", "r", " ", "a", "t", " ", "2", "0", "2", "3", "-", "0", "1", "-", "0", "1", "T", "1", "0", ":", "0", "0", ":", "0", "0", ".", "1", "2", "3", "Z">>,
    <<"E", "r", "r", "o", "r", " ", "a", "t", " ", "2", "0", "2", "3", "-", "0", "1", "-", "0", "1", "T", "1", "0", ":", "0", "0", ":", "0", "0", ".", "1", "2", "3", "4", "5", "6", "Z">>,
    <<"E", "r", "r", "o", "r", " ", "a", "t", " ", "2", "0", "2", "3", "-", "0", "1", "-", "0", "1", "T", "1", "0", ":", "0", "0", ":", "0", "0", ".", "5">> }

TimestampOptions == [category |-> Str(sTest)]

Init == calls = <<>> /\ clock = 0 /\ heap = <<>> /\ made = <<>>

Next ==
  \/ Tick
  \/ \E messageOrError \in BuildSources, options \in BuildOptions :
       CallCreateStableError(messageOrError, options)

Spec == Init /\ [][Next]_vars

(***************************************************************************)
(* Properties of createStableError, checked under Spec                    *)
(***************************************************************************)

CreateCalls == {i \in 1..Len(calls) : calls[i].fn = "createStableError"}

Source(i) == calls[i].args[1]

Options(i) == calls[i].args[2]

Record(i) == calls[i].result

IsText(v) == v.type = "string"

\* the keys of an object, as a set
KeySet(o) == {o.val[k][1] : k \in 1..Len(o.val)}

\* the entries of an object, as a set of pairs
EntrySet(o) == {o.val[k] : k \in 1..Len(o.val)}

\* C7: when the options carry a statusCode the record's statusCode is that
\* integer, 0 included, and it is 500 only when they carry none.
C7_StatusCodeAsSupplied ==
  \A i \in CreateCalls :
    IF "statusCode" \in DOMAIN Options(i)
    THEN Record(i).statusCode = Options(i).statusCode
    ELSE Record(i).statusCode = Num(500)

\* C8: a text message and no options give a record with the message as
\* given, name StableError, category general, severity medium, statusCode
\* 500 and empty metadata; an empty-string category gives general too.
C8_Defaults ==
  \A i \in CreateCalls :
    /\ (IsText(Source(i)) /\ DOMAIN Options(i) = {}) =>
          /\ Record(i).message = Source(i)
          /\ Record(i).name = Str(<<"S", "t", "a", "b", "l", "e", "E", "r", "r", "o", "r">>)
          /\ Record(i).category = Str(<<"g", "e", "n", "e", "r", "a", "l">>)
          /\ Record(i).severity = Str(<<"m", "e", "d", "i", "u", "m">>)
          /\ Record(i).statusCode = Num(500)
          /\ Record(i).metadata = Obj(<<>>)
    /\ ("category" \in DOMAIN Options(i) /\ Options(i).category = Str(<<>>)) =>
          Record(i).category = Str(<<"g", "e", "n", "e", "r", "a", "l">>)

C8_Witness ==
  /\ \E i \in CreateCalls : IsText(Source(i)) /\ DOMAIN Options(i) = {}
  /\ \E i \in CreateCalls :
       "category" \in DOMAIN Options(i) /\ Options(i).category = Str(<<>>)

\* C9: wrapping an error gives the record the metadata of the options with
\* originalName and originalStack set to the source's name and stack, both
\* present whatever the options hold and overriding the caller's; a text
\* source gives exactly the entries of options.metadata.
C9_MergedMetadata ==
  \A i \in CreateCalls :
    LET given == Obj(SpreadEntries(Prop(Options(i), "metadata")))
        added == {<<"o", "r", "i", "g", "i", "n", "a", "l", "N", "a", "m", "e">>, <<"o", "r", "i", "g", "i", "n", "a", "l", "S", "t", "a", "c", "k">>}
    IN  IF IsText(Source(i))
        THEN EntrySet(Record(i).metadata) = EntrySet(given)
        ELSE /\ KeySet(Record(i).metadata) = KeySet(given) \cup added
             /\ Len(Record(i).metadata.val) = Cardinality(KeySet(Record(i).metadata))
             /\ Get(Record(i).metadata.val, <<"o", "r", "i", "g", "i", "n", "a", "l", "N", "a", "m", "e">>) = Source(i).name
             /\ Get(Record(i).metadata.val, <<"o", "r", "i", "g", "i", "n", "a", "l", "S", "t", "a", "c", "k">>) = Source(i).stack
             /\ \A e \in EntrySet(given) :
                  e[1] \notin added => e \in EntrySet(Record(i).metadata)

C9_Witness ==
  /\ \E i \in CreateCalls :
       /\ ~IsText(Source(i))
       /\ <<"o", "r", "i", "g", "i", "n", "a", "l", "N", "a", "m", "e">> \in KeySet(Obj(SpreadEntries(Prop(Options(i), "metadata"))))
       /\ Get(Prop(Options(i), "metadata").val, <<"o", "r", "i", "g", "i", "n", "a", "l", "N", "a", "m", "e">>) # Source(i).name
  /\ \E i \in CreateCalls : ~IsText(Source(i)) /\ DOMAIN Options(i) = {}

\* C10: wrapping a source that has a stack gives the record exactly that
\* stack, the empty string included; the name is StableError whatever the
\* source's name; the stack of the construction is kept only without one.
C10_StackPreserved ==
  \A i \in CreateCalls :
    ~IsText(Source(i)) =>
      /\ Record(i).name = Str(<<"S", "t", "a", "b", "l", "e", "E", "r", "r", "o", "r">>)
      /\ IF Source(i).stack.type = "string"
         THEN Record(i).stack = Source(i).stack
         ELSE Record(i).stack = Str(HostStack(Source(i).message.val))

NextIdentity ==
  \/ Tick
  \/ \E messageOrError \in IdSources, options \in IdOptions :
       CallCreateStableError(messageOrError, options)

SpecIdentity == Init /\ [][NextIdentity]_vars

(***************************************************************************)
(* Properties of the id, checked under SpecIdentity                       *)
(***************************************************************************)

\* the message text of a call, given as text or carried by a wrapped error
MessageText(i) == IF IsText(Source(i)) THEN Source(i).val ELSE Source(i).message.val

\* the entries of options.metadata under one of the six keys whose value is
\* neither null nor undefined
StableEntries(i) ==
  {e \in EntrySet(Obj(SpreadEntries(Prop(Options(i), "metadata")))) :
     /\ e[1] \in {<<"t", "y", "p", "e">>, <<"c", "o", "d", "e">>, <<"f", "i", "e", "l", "d">>, <<"o", "p", "e", "r", "a", "t", "i", "o", "n">>, <<"s", "e", "r", "v", "i", "c", "e">>, <<"c", "o", "m", "p", "o", "n", "e", "n", "t">>}
     /\ e[2].type \notin {"null", "undefined"}}

SameTriple(i, j) ==
  /\ MessageText(i) = MessageText(j)
  /\ Prop(Options(i), "category") = Prop(Options(j), "category")
  /\ StableEntries(i) = StableEntries(j)

\* C1: two calls of createStableError that agree on the message text, the
\* category and the allow-listed non-null metadata entries return records
\* with the same id, whatever else they differ in.
C1_IdFromTripleOnly ==
  \A i \in CreateCalls : \A j \in CreateCalls :
    SameTriple(i, j) => Record(i).id = Record(j).id

C1_Witness ==
  \E i \in CreateCalls : \E j \in CreateCalls :
    /\ SameTriple(i, j)
    /\ Record(i).id = Record(j).id
    /\ IsText(Source(i)) /\ ~IsText(Source(j))
    /\ Record(i).severity # Record(j).severity
    /\ Record(i).statusCode # Record(j).statusCode
    /\ Record(i).timestamp # Record(j).timestamp
    /\ Record(i).stack # Record(j).stack
    /\ Record(i).metadata # Record(j).metadata
    /\ Keys(SpreadEntries(Prop(Options(i), "metadata")))
         # Keys(SpreadEntries(Prop(Options(j), "metadata")))

(***************************************************************************)
(* generateStableId alone, checked under SpecId                           *)
(***************************************************************************)

NextId ==
  \E message \in IdMessages, category \in IdCategories, metadata \in IdMetadatas :
    CallGenerateStableId(message, category, metadata)

SpecId == Init /\ [][NextId]_vars

IdCalls == {i \in 1..Len(calls) : calls[i].fn = "generateStableId"}

\* C2: generateStableId returns exactly 8 characters, each in 0-9 or a-f,
\* for every input, also when the hash is -2^31.
C2_EightHexCharacters ==
  \A i \in IdCalls :
    /\ Len(calls[i].result.val) = 8
    /\ \A k \in 1..Len(calls[i].result.val) :
         calls[i].result.val[k] \in {"0", "1", "2", "3", "4", "5", "6", "7", "8", "9",
                                     "a", "b", "c", "d", "e", "f"}

\* a call whose hash is -2^31 and one whose hash is 0
C2_Witness ==
  /\ \E i \in IdCalls :
       /\ Hash(stableString(calls[i].args[1], calls[i].args[2], calls[i].args[3]))
            = Int32(2^15, 0)
       /\ calls[i].result = Str(<<"8", "0", "0", "0", "0", "0", "0", "0">>)
  /\ \E i \in IdCalls :
       /\ calls[i].args[1] = Undefined /\ calls[i].args[3] = Undefined
       /\ Len(calls[i].result.val) = 8

(***************************************************************************)
(* filterMetadata alone, checked under SpecFilter: it is called on the    *)
(* inputs and on the mappings it returned.                                *)
(***************************************************************************)

FilterCalls == {i \in 1..Len(calls) : calls[i].fn = "filterMetadata"}

NextFilter ==
  \E metadata \in FilterInputs \cup {calls[i].result : i \in FilterCalls} :
    CallFilterMetadata(metadata)

SpecFilter == Init /\ [][NextFilter]_vars

\* C6: filterMetadata(m) holds exactly the entries of m under one of the six
\* keys whose value is neither null nor undefined, the values unchanged; it
\* is empty when m is null, undefined or no object; and filtering a result
\* again returns it.
C6_FilterExact ==
  \A i \in FilterCalls :
    LET m == calls[i].args[1]
        r == calls[i].result
    IN  /\ r.type = "object"
        /\ Len(r.val) = Cardinality(KeySet(r))
        /\ IF m.type = "object"
           THEN EntrySet(r) =
                  {e \in EntrySet(m) :
                     /\ e[1] \in {<<"t", "y", "p", "e">>, <<"c", "o", "d", "e">>, <<"f", "i", "e", "l", "d">>, <<"o", "p", "e", "r", "a", "t", "i", "o", "n">>, <<"s", "e", "r", "v", "i", "c", "e">>, <<"c", "o", "m", "p", "o", "n", "e", "n", "t">>}
                     /\ e[2].type \notin {"null", "undefined"}}
           ELSE r = Obj(<<>>)
        /\ \A j \in FilterCalls : calls[j].args[1] = r => calls[j].result = r

\* a mapping with entries kept and entries dropped, then filtered again
C6_Witness ==
  \E i \in FilterCalls : \E j \in FilterCalls :
    /\ i < j
    /\ calls[i].args[1].type = "object"
    /\ calls[i].result.val # <<>>
    /\ Len(calls[i].result.val) < Len(calls[i].args[1].val)
    /\ \E e \in EntrySet(calls[i].result) : e[2] = Num(0)
    /\ calls[j].args[1] = calls[i].result
    /\ calls[j].result = calls[i].result

(***************************************************************************)
(* normalizeMessage and the ids built from it, checked under              *)
(* SpecNormalize                                                          *)
(***************************************************************************)

NextNormalize ==
  \E message \in NormalizeMessages :
    \/ CallNormalizeMessage(Str(message))
    \/ CallCreateStableError(Str(message), NormalizeOptions)

SpecNormalize == Init /\ [][NextNormalize]_vars

NormalizeCalls == {i \in 1..Len(calls) : calls[i].fn = "normalizeMessage"}

\* the digits before and after position i end at a non-word character
RECURSIVE LeftBounded(_, _)
LeftBounded(w, i) ==
  IF i < 1 THEN TRUE
  ELSE IF IsDigit(w[i]) THEN LeftBounded(w, i - 1) ELSE ~IsWordChar(w[i])

RECURSIVE RightBounded(_, _)
RightBounded(w, i) ==
  IF i > Len(w) THEN TRUE
  ELSE IF IsDigit(w[i]) THEN RightBounded(w, i + 1) ELSE ~IsWordChar(w[i])

\* position i of w is a digit of a standalone (word-bounded) decimal number
InStandaloneNumber(w, i) ==
  IsDigit(w[i]) /\ LeftBounded(w, i - 1) /\ RightBounded(w, i + 1)

\* w without the case of its letters, the whitespace at its ends and the
\* amount of whitespace between its words
RECURSIVE Squeeze(_, _)
Squeeze(w, i) ==
  IF i > Len(w) THEN <<>>
  ELSE IF IsSpace(w[i])
       THEN IF i = 1 \/ IsSpace(w[i - 1]) \/ \A k \in i..Len(w) : IsSpace(w[k])
            THEN Squeeze(w, i + 1)
            ELSE <<" ">> \o Squeeze(w, i + 1)
       ELSE <<LowerChar(w[i])>> \o Squeeze(w, i + 1)

\* w with every digit of a standalone number replaced by 0
DigitsBlanked(w) ==
  [i \in 1..Len(w) |-> IF InStandaloneNumber(w, i) THEN "0" ELSE w[i]]

\* w with every standalone number, whatever its length, replaced by one 0
RECURSIVE NumbersBlanked(_, _)
NumbersBlanked(w, i) ==
  IF i > Len(w) THEN <<>>
  ELSE IF InStandaloneNumber(w, i)
       THEN IF i > 1 /\ IsDigit(w[i - 1])
            THEN NumbersBlanked(w, i + 1)
            ELSE <<"0">> \o NumbersBlanked(w, i + 1)
       ELSE <<w[i]>> \o NumbersBlanked(w, i + 1)

EqualUpToNumbers(m1, m2) ==
  NumbersBlanked(Squeeze(m1, 1), 1) = NumbersBlanked(Squeeze(m2, 1), 1)

EqualUpToDigits(m1, m2) ==
  DigitsBlanked(Squeeze(m1, 1)) = DigitsBlanked(Squeeze(m2, 1))

StandaloneRuns(t) ==
  {i \in 1..Len(t) : InStandaloneNumber(t, i) /\ (i = 1 \/ ~IsDigit(t[i - 1]))}

RECURSIVE RunLength(_, _)
RunLength(t, i) ==
  IF i > Len(t) \/ ~IsDigit(t[i]) THEN 0 ELSE 1 + RunLength(t, i + 1)

Occurrences(r, token) ==
  Cardinality({i \in 1..(Len(r) - Len(token) + 1) :
                 SubSeq(r, i, i + Len(token) - 1) = token})

\* r has one TIMESTAMP_MS for each standalone run of 13 digits of t, one
\* NUMBER for each standalone run of another length, and no standalone run
ReplacedByLength(t, r) ==
  /\ Occurrences(r, <<"T", "I", "M", "E", "S", "T", "A", "M", "P", "_", "M", "S">>)
       = Cardinality({i \in StandaloneRuns(t) : RunLength(t, i) = 13})
  /\ Occurrences(r, <<"N", "U", "M", "B", "E", "R">>)
       = Cardinality({i \in StandaloneRuns(t) : RunLength(t, i) # 13})
  /\ StandaloneRuns(r) = {}

\* C5 as stated: every standalone run of exactly 13 digits of the message is
\* replaced by TIMESTAMP_MS and never by NUMBER, and every standalone run of
\* any other length is replaced by NUMBER.
C5_EveryRunOfTheMessage ==
  \A i \in NormalizeCalls :
    ReplacedByLength(calls[i].args[1].val, calls[i].result.val)

\* C5 amended: every standalone run of exactly 13 digits that the UUID and
\* ISO timestamp replacements (lines 42 and 43) leave in the message is
\* replaced by TIMESTAMP_MS and never by NUMBER, and every standalone run of
\* any other length they leave is replaced by NUMBER.
C5_EveryRunLeftByLine43 ==
  \A i \in NormalizeCalls :
    ReplacedByLength(Line43(Line42(Line39(calls[i].args[1].val))), calls[i].result.val)

\* a message with a run of 13 digits and a run of another length
C5_Witness ==
  \E i \in NormalizeCalls :
    /\ calls[i].args[1].val = <<"O", "r", "d", "e", "r", " ", "4", "2", " ", "a", "t", " ", "1", "6", "7", "2", "5", "3", "1", "2", "0", "0", "0", "0", "0">>
    /\ calls[i].result.val = <<"o", "r", "d", "e", "r", " ", "N", "U", "M", "B", "E", "R", " ", "a", "t", " ", "T", "I", "M", "E", "S", "T", "A", "M", "P", "_", "M", "S">>

(***************************************************************************)
(* messages with an embedded UUID, checked under SpecUuid                 *)
(***************************************************************************)

NextUuid ==
  \E message \in UuidMessages :
    \/ CallNormalizeMessage(Str(message))
    \/ CallCreateStableError(Str(message), UuidOptions)

SpecUuid == Init /\ [][NextUuid]_vars

\* u is 8-4-4-4-12 hexadecimal characters of any case
IsUuid(u) ==
  /\ Len(u) = 36
  /\ \A p \in 1..36 :
       IF p \in {9, 14, 19, 24}
       THEN u[p] = "-"
       ELSE LowerChar(u[p]) \in {"0", "1", "2", "3", "4", "5", "6", "7", "8", "9",
                                 "a", "b", "c", "d", "e", "f"}

\* m1 and m2 are the same text, one UUID each, the same text
DifferInOneUuid(m1, m2) ==
  /\ Len(m1) = Len(m2)
  /\ \E k \in 0..(Len(m1) - 36) :
       /\ SubSeq(m1, 1, k) = SubSeq(m2, 1, k)
       /\ IsUuid(SubSeq(m1, k + 1, k + 36))
       /\ IsUuid(SubSeq(m2, k + 1, k + 36))
       /\ SubSeq(m1, k + 37, Len(m1)) = SubSeq(m2, k + 37, Len(m2))

\* C4: two messages that differ only in one embedded UUID, between the same
\* texts, have the same normalizeMessage result and the same id under the
\* same category, whatever the surrounding text.
C4_UuidCollapsed ==
  /\ \A i \in NormalizeCalls : \A j \in NormalizeCalls :
       DifferInOneUuid(calls[i].args[1].val, calls[j].args[1].val)
         => calls[i].result = calls[j].result
  /\ \A i \in CreateCalls : \A j \in CreateCalls :
       (DifferInOneUuid(Source(i).val, Source(j).val) /\ Options(i) = Options(j))
         => Record(i).id = Record(j).id

(***************************************************************************)
(* Records and their arguments as objects, checked under SpecHeap: the    *)
(* caller builds errors, assigns fields of the records, changes their     *)
(* metadata and serializes them.                                          *)
(***************************************************************************)

InitHeap == calls = <<>> /\ clock = 0 /\ heap = CallerObjects /\ made = CallerObjects

NextHeap ==
  \/ \E messageOrError \in HeapSources, options \in HeapOptions :
       CreateStableErrorAt(messageOrError, options)
  \/ \E r \in Records : CallToJSON(r)
  \/ \E r \in Records, field \in AssignedFields : AssignField(r, field, Str(sChanged))
  \/ \E r \in Records : SetMetadataKey(r, kField, Str(sChanged))
  \/ \E r \in Records : DeleteMetadataKey(r, kField)

SpecHeap == InitHeap /\ [][NextHeap]_vars

ToJSONCalls == {i \in 1..Len(calls) : calls[i].fn = "toJSON"}

\* C11: toJSON returns exactly the eight keys id, message, category,
\* metadata, severity, timestamp, statusCode, stack, each with the value the
\* record's field had at construction time, whatever happened since.
C11_ToJSONAtConstruction ==
  \A i \in ToJSONCalls :
    LET built == made[calls[i].args[1].addr]
        json == calls[i].result
    IN  /\ Len(json.val) = 8
        /\ KeySet(json) = {<<"i", "d">>, <<"m", "e", "s", "s", "a", "g", "e">>, <<"c", "a", "t", "e", "g", "o", "r", "y">>, <<"m", "e", "t", "a", "d", "a", "t", "a">>, <<"s", "e", "v", "e", "r", "i", "t", "y">>,
                           <<"t", "i", "m", "e", "s", "t", "a", "m", "p">>, <<"s", "t", "a", "t", "u", "s", "C", "o", "d", "e">>, <<"s", "t", "a", "c", "k">>}
        /\ Get(json.val, <<"i", "d">>) = built.id
        /\ Get(json.val, <<"m", "e", "s", "s", "a", "g", "e">>) = built.message
        /\ Get(json.val, <<"c", "a", "t", "e", "g", "o", "r", "y">>) = built.category
        /\ Get(json.val, <<"m", "e", "t", "a", "d", "a", "t", "a">>) = built.metadata
        /\ Get(json.val, <<"s", "e", "v", "e", "r", "i", "t", "y">>) = built.severity
        /\ Get(json.val, <<"t", "i", "m", "e", "s", "t", "a", "m", "p">>) = built.timestamp
        /\ Get(json.val, <<"s", "t", "a", "t", "u", "s", "C", "o", "d", "e">>) = built.statusCode
        /\ Get(json.val, <<"s", "t", "a", "c", "k">>) = built.stack

\* a step that is a call of createStableError
IsCreateStep ==
  /\ Len(calls') = Len(calls) + 1
  /\ calls'[Len(calls')].fn = "createStableError"

\* C18: createStableError changes nothing it is given (the source error,
\* the options, options.metadata); the record's metadata is a new mapping,
\* so that changing its keys afterwards leaves options.metadata unchanged;
\* and no call changes a record returned by an earlier call.
C18_NothingGivenChanges ==
  /\ [](/\ \A a \in 1..Len(CallerObjects) : heap[a] = CallerObjects[a]
        /\ \A r \in Records :
             /\ heap[r].metadata.addr > Len(CallerObjects)
             /\ \A q \in Records : q # r => heap[q].metadata.addr # heap[r].metadata.addr)
  /\ [][IsCreateStep => \A a \in 1..Len(heap) : heap'[a] = heap[a]]_vars

\* a source error wrapped with options that carry metadata, the record's
\* metadata changed afterwards, and a later call beside the first record
C18_Witness ==
  \E i \in CreateCalls : \E j \in CreateCalls :
    /\ i < j
    /\ calls[i].args = <<Ref(1), Ref(3)>>
    /\ heap[heap[calls[i].result.addr].metadata.addr]
         # made[heap[calls[i].result.addr].metadata.addr]
    /\ heap[calls[i].result.addr] = made[calls[i].result.addr]
    /\ calls[j].args[2] = Ref(3)
    /\ heap[2] = CallerObjects[2]

(***************************************************************************)
(* The canonical string and its hash, checked under SpecCanonical         *)
(***************************************************************************)

NextCanonical ==
  \E input \in CanonicalInputs : CallGenerateStableId(input[1], input[2], input[3])

SpecCanonical == Init /\ [][NextCanonical]_vars

\* the string generateStableId hashes in call i
HashedString(i) == stableString(calls[i].args[1], calls[i].args[2], calls[i].args[3])

\* what the id is meant to depend on: the normalized message, the
\* lowercase-trimmed category, the filtered metadata as key to
\* lowercase-trimmed string value
IdTriple(i) ==
  << normalizeMessage(calls[i].args[1]),
     trim(toLowerCase(OrElse(calls[i].args[2], Str(<<>>)).val)),
     {<<e[1], trim(toLowerCase(String(e[2])))>> : e \in EntrySet(filterMetadata(calls[i].args[3]))} >>

\* C12: two inputs of generateStableId that differ in the normalized
\* message, the lowercase-trimmed category or the filtered metadata have
\* different canonical strings, also when categories and values contain
\* the characters | : and ,
C12_DifferentCanonicalStrings ==
  \A i \in IdCalls : \A j \in IdCalls :
    IdTriple(i) # IdTriple(j) => HashedString(i) # HashedString(j)

\* hi * 2^16 + lo reduced modulo 2^32, as the two halves of its pattern
Wrap32(hi, lo) == Int32((hi + (lo \div W16)) % W16, lo % W16)

\* the polynomial hash with multiplier 31 continued from the accumulator
\* acc over the characters from..to of s: after each character code c the
\* accumulator is 31 * acc + c modulo 2^32
RECURSIVE PolynomialOver(_, _, _, _)
PolynomialOver(s, acc, from, to) ==
  IF acc.hi < 0 \/ from > to THEN acc
  ELSE IF from = to THEN Wrap32(31 * acc.hi, 31 * acc.lo + charCodeAt(s[from]))
  ELSE PolynomialOver(s, PolynomialOver(s, acc, from, (from + to) \div 2),
                      (from + to) \div 2 + 1, to)

Polynomial31(s, n) == PolynomialOver(s, Int32(0, 0), 1, n)

\* the four lowercase hexadecimal digits of a 16-bit half
HexWord(n) ==
  LET digit == <<"0", "1", "2", "3", "4", "5", "6", "7", "8", "9",
                 "a", "b", "c", "d", "e", "f">>
  IN  << digit[(n \div 4096) + 1], digit[((n \div 256) % 16) + 1],
         digit[((n \div 16) % 16) + 1], digit[(n % 16) + 1] >>

\* the absolute value of the signed integer of a pattern, in 8 hexadecimal
\* digits
AbsoluteHex(w) ==
  IF w.hi >= 2^15
  THEN HexWord((W16 - 1 - w.hi + (IF w.lo = 0 THEN 1 ELSE 0)) % W16)
         \o HexWord((W16 - w.lo) % W16)
  ELSE HexWord(w.hi) \o HexWord(w.lo)

\* C13: the hash is the polynomial hash with multiplier 31 of the canonical
\* string, wrapped to a signed 32-bit integer after each character, and the
\* id is its absolute value in lowercase hexadecimal, left-padded with 0 to
\* 8 characters.
C13_PolynomialHash ==
  \A i \in IdCalls :
    /\ Hash(HashedString(i)) = Polynomial31(HashedString(i), Len(HashedString(i)))
    /\ calls[i].result = Str(AbsoluteHex(Polynomial31(HashedString(i), Len(HashedString(i)))))

\* a hash that is negative, the hash -2^31 and a hash of fewer than 8 digits
C13_Witness ==
  \E i \in IdCalls : \E j \in IdCalls :
    /\ Polynomial31(HashedString(i), Len(HashedString(i))) = Int32(2^15, 0)
    /\ calls[i].result = Str(<<"8", "0", "0", "0", "0", "0", "0", "0">>)
    /\ calls[j].result = Str(<<"0", "0", "0", "0", "0", "0", "0", "0">>)

\* the canonical string as a text: the six keys in ascending order, those
\* kept whose value is neither null nor undefined
CanonicalText(message, category, metadata) ==
  LET kept == SelectSeq(<< <<"c", "o", "d", "e">>, <<"c", "o", "m", "p", "o", "n", "e", "n", "t">>, <<"f", "i", "e", "l", "d">>, <<"o", "p", "e", "r", "a", "t", "i", "o", "n">>, <<"s", "e", "r", "v", "i", "c", "e">>, <<"t", "y", "p", "e">> >>,
                LAMBDA k : /\ metadata.type = "object"
                           /\ \E e \in EntrySet(metadata) :
                                e[1] = k /\ e[2].type \notin {"null", "undefined"})
      pair(k) == k \o <<":">> \o trim(toLowerCase(String(Get(metadata.val, k))))
      pairs == [n \in 1..Len(kept) |->
                  IF n = 1 THEN pair(kept[n]) ELSE <<",">> \o pair(kept[n])]
      flat[n \in 0..Len(kept)] == IF n = 0 THEN <<>> ELSE flat[n - 1] \o pairs[n]
  IN  <<"m", "e", "s", "s", "a", "g", "e", ":">> \o normalizeMessage(message)
        \o <<"|", "c", "a", "t", "e", "g", "o", "r", "y", ":">> \o trim(toLowerCase(OrElse(category, Str(<<>>)).val))
        \o (IF kept = <<>> THEN <<>> ELSE <<"|", "m", "e", "t", "a", "d", "a", "t", "a", ":">> \o flat[Len(kept)])

\* C15: generateStableId hashes message:<normalized message>|category:
\* <lowercase-trimmed category>, followed by |metadata:<k1>:<v1>,... with the
\* filtered keys ascending only when the filtered metadata is non-empty; so
\* inputs that differ in the insertion order of the keys, in the case or
\* surrounding whitespace of the category and of allow-listed values, or in
\* entries that are filtered out, get the same id.
C15_CanonicalString ==
  /\ \A i \in IdCalls :
       /\ HashedString(i) = CanonicalText(calls[i].args[1], calls[i].args[2], calls[i].args[3])
       /\ calls[i].result = Str(HashToId(Hash(
            CanonicalText(calls[i].args[1], calls[i].args[2], calls[i].args[3]))))
  /\ \A i \in IdCalls : \A j \in IdCalls :
       IdTriple(i) = IdTriple(j) => calls[i].result = calls[j].result

\* two calls whose metadata differ in key order, case, whitespace and a key
\* that is filtered out, and whose categories differ in case and whitespace
C15_Witness ==
  \E i \in IdCalls : \E j \in IdCalls :
    /\ calls[i].args[2] = Str(sTest)
    /\ calls[j].args[2] = Str(<<" ", "T", "e", "s", "t", " ">>)
    /\ Keys(calls[i].args[3].val) = <<kField, kCode>>
    /\ Keys(calls[j].args[3].val) = <<kCode, kUserId, kField>>
    /\ calls[i].result = calls[j].result

(***************************************************************************)
(* The accumulator update alone, checked under SpecHashStep               *)
(***************************************************************************)

NextHashStep ==
  \E hash \in HashValues, char \in HashChars : CallHashStep(hash, char)

SpecHashStep == Init /\ [][NextHashStep]_vars

HashStepCalls == {i \in 1..Len(calls) : calls[i].fn = "hashStep"}

\* C14 as stated: the update equals acc*31 - acc + c truncated to 32 bits,
\* and that equals ((acc << 5) - acc) + c wrapped to 32 bits.
C14_Times31MinusAcc ==
  \A i \in HashStepCalls :
    LET acc == calls[i].args[1]
        c == calls[i].args[2].val
    IN  /\ calls[i].result = Wrap32(acc.hi * 31 - acc.hi, acc.lo * 31 - acc.lo + c)
        /\ Wrap32(acc.hi * 31 - acc.hi, acc.lo * 31 - acc.lo + c)
             = Wrap32(acc.hi * 32 - acc.hi, acc.lo * 32 - acc.lo + c)

\* C14 amended: the update equals acc*32 - acc + c, that is 31*acc + c,
\* truncated to 32 bits, which is ((acc << 5) - acc) + c wrapped to 32 bits.
C14_Times32MinusAcc ==
  \A i \in HashStepCalls :
    LET acc == calls[i].args[1]
        c == calls[i].args[2].val
    IN  /\ calls[i].result = Wrap32(acc.hi * 32 - acc.hi, acc.lo * 32 - acc.lo + c)
        /\ Wrap32(acc.hi * 32 - acc.hi, acc.lo * 32 - acc.lo + c)
             = Wrap32(acc.hi * 31, acc.lo * 31 + c)

\* an update whose shift overflows and one of a negative accumulator
C14_Witness ==
  \E i \in HashStepCalls : \E j \in HashStepCalls :
    /\ calls[i].args = <<Int32(1024, 0), Num(97)>>
    /\ calls[i].result = Int32(31744, 97)
    /\ calls[j].args[1] = Int32(65535, 65535)
    /\ calls[j].result = Wrap32(65535 * 31, 65535 * 31 + calls[j].args[2].val)

(***************************************************************************)
(* messages with an embedded timestamp, checked under SpecTimestamp       *)
(***************************************************************************)

NextTimestamp ==
  \E message \in TimestampMessages :
    \/ CallNormalizeMessage(Str(message))
    \/ CallCreateStableError(Str(message), TimestampOptions)

SpecTimestamp == Init /\ [][NextTimestamp]_vars

AllDigits(t, from, to) == \A p \in from..to : IsDigit(t[p])

\* t has the shape YYYY-MM-DDThh:mm:ss, then maybe a fraction of one or
\* more digits, then maybe Z
IsIsoTimestamp(t) ==
  /\ Len(t) >= 19
  /\ AllDigits(t, 1, 4) /\ t[5] = "-" /\ AllDigits(t, 6, 7) /\ t[8] = "-"
  /\ AllDigits(t, 9, 10) /\ t[11] \in {"T", "t"} /\ AllDigits(t, 12, 13)
  /\ t[14] = ":" /\ AllDigits(t, 15, 16) /\ t[17] = ":" /\ AllDigits(t, 18, 19)
  /\ LET end == IF t[Len(t)] \in {"Z", "z"} THEN Len(t) - 1 ELSE Len(t)
     IN  \/ end = 19
         \/ end >= 21 /\ t[20] = "." /\ AllDigits(t, 21, end)

\* t is a 13-digit millisecond epoch
IsEpoch(t) == Len(t) = 13 /\ AllDigits(t, 1, 13)

\* m1 and m2 are the same text, one timestamp each, the same text
DifferInOneTimestamp(m1, m2, IsTimestamp(_)) ==
  \E k \in 0..Len(m1) : \E e \in 0..(Len(m1) - k) :
    /\ k + e <= Len(m2)
    /\ SubSeq(m1, 1, k) = SubSeq(m2, 1, k)
    /\ SubSeq(m1, Len(m1) - e + 1, Len(m1)) = SubSeq(m2, Len(m2) - e + 1, Len(m2))
    /\ IsTimestamp(SubSeq(m1, k + 1, Len(m1) - e))
    /\ IsTimestamp(SubSeq(m2, k + 1, Len(m2) - e))

\* C16: normalizeMessage replaces a timestamp YYYY-MM-DDThh:mm:ss, with or
\* without a fraction of any number of digits and with or without Z, as a
\* whole by TIMESTAMP, so two messages that differ only in such a timestamp
\* normalize to the same text.
C16_TimestampAsAWhole ==
  /\ \A i \in NormalizeCalls :
       LET m == calls[i].args[1].val
       IN  (/\ SubSeq(m, 1, 9) = <<"E", "r", "r", "o", "r", " ", "a", "t", " ">>
            /\ IsIsoTimestamp(SubSeq(m, 10, Len(m))))
             => calls[i].result = Str(<<"e", "r", "r", "o", "r", " ", "a", "t", " ", "T", "I", "M", "E", "S", "T", "A", "M", "P">>)
  /\ \A i \in NormalizeCalls : \A j \in NormalizeCalls :
       DifferInOneTimestamp(calls[i].args[1].val, calls[j].args[1].val, IsIsoTimestamp)
         => calls[i].result = calls[j].result

IsIsoOrEpoch(t) == IsIsoTimestamp(t) \/ IsEpoch(t)

\* C17: createStableError gives the same id, under the same category, to
\* messages that differ only in an embedded timestamp, written as an ISO
\* date-time or as a 13-digit millisecond epoch.
C17_IsoAndEpochSameId ==
  \A i \in CreateCalls : \A j \in CreateCalls :
    (/\ DifferInOneTimestamp(Source(i).val, Source(j).val, IsIsoOrEpoch)
     /\ Options(i) = Options(j))
      => Record(i).id = Record(j).id
====
